---- MODULE Spec2Model ----
(***************************************************************************)
(* Castle rules engine: connectors, rotated rooms, the castle mapping and  *)
(* its damage counter, the five actions of apply, and the enumeration of   *)
(* legal actions.                                                          *)
(***************************************************************************)
EXTENDS Integers, Sequences, FiniteSets, TLC

VARIABLES castle, overflow_checks, panicked

vars == <<castle, overflow_checks, panicked>>

(* ------------------------------ bounds -------------------------------- *)
\* positions offered to the actions are 0..MaxX by 0..MaxY
MaxX == 1
MaxY == 1
\* Place is offered only while the castle has fewer rooms than this
MaxRooms == 3
\* longest position list offered to Discard
MaxDiscards == 2

Grid == (0..MaxX) \X (0..MaxY)
Rots == {0, 90}
Amounts == {0, 1, 255}

(* ---------------------------- connectors ------------------------------ *)
CNone == [kind |-> "None", power |-> FALSE]
Wild == [kind |-> "Wild", power |-> FALSE]
Diamond(p) == [kind |-> "Diamond", power |-> p]
Cross(p) == [kind |-> "Cross", power |-> p]
Moon(p) == [kind |-> "Moon", power |-> p]

Connection == {CNone, Wild} \cup {[kind |-> k, power |-> p] : k \in {"Diamond", "Cross", "Moon"}, p \in BOOLEAN}

\* connect that joins only connectors of compatible types
connect_TypeAware(a, b) ==
  IF a.kind = "None" /\ b.kind = "None" THEN "None"
  ELSE IF a.kind # "None" /\ b.kind # "None" /\ (a.kind = b.kind \/ a.kind = "Wild" \/ b.kind = "Wild")
    THEN "SomeTrue" ELSE "SomeFalse"

\* Option<bool> as "None" | "SomeTrue" | "SomeFalse"
connect(a, b) ==
  IF a.kind = "None" /\ b.kind = "None" THEN "None"
  ELSE IF a.kind # "None" /\ b.kind # "None" THEN "SomeTrue" ELSE "SomeFalse"

\* link that fails for two typed connectors of different types
link_Strict(a, b) ==
  CASE a.kind = "Wild" /\ b.kind = "Wild" -> [ok |-> TRUE, val |-> Wild]
    [] a.kind = "Wild" /\ b.kind = "Diamond" -> [ok |-> TRUE, val |-> Diamond(TRUE)]
    [] a.kind = "Wild" /\ b.kind = "Cross" -> [ok |-> TRUE, val |-> Cross(TRUE)]
    [] a.kind = "Wild" /\ b.kind = "Moon" -> [ok |-> TRUE, val |-> Moon(TRUE)]
    [] a.kind \in {"Diamond", "Cross", "Moon"} /\ b.kind = "Wild" -> [ok |-> TRUE, val |-> a]
    [] a.kind \in {"Diamond", "Cross", "Moon"} /\ b.kind = a.kind -> [ok |-> TRUE, val |-> a]
    [] a.kind = "None" /\ b.kind = "None" -> [ok |-> TRUE, val |-> CNone]
    [] OTHER -> [ok |-> FALSE, val |-> CNone]

\* Result<Connection, CastleError> as [ok, val]
link(a, b) ==
  CASE a.kind = "Wild" /\ b.kind = "Wild" -> [ok |-> TRUE, val |-> Wild]
    [] a.kind = "Wild" /\ b.kind = "Diamond" -> [ok |-> TRUE, val |-> Diamond(TRUE)]
    [] a.kind = "Wild" /\ b.kind = "Cross" -> [ok |-> TRUE, val |-> Cross(TRUE)]
    [] a.kind = "Wild" /\ b.kind = "Moon" -> [ok |-> TRUE, val |-> Moon(TRUE)]
    [] a.kind \in {"Diamond", "Cross", "Moon"} /\ b.kind = "Wild" -> [ok |-> TRUE, val |-> a]
    [] a.kind \in {"Diamond", "Cross", "Moon"} /\ b.kind = a.kind -> [ok |-> TRUE, val |-> a]
    [] a.kind = "None" /\ b.kind = "None" -> [ok |-> TRUE, val |-> CNone]
    [] a.kind = "None" /\ b.kind # "None" -> [ok |-> FALSE, val |-> CNone]
    [] a.kind # "None" /\ b.kind = "None" -> [ok |-> FALSE, val |-> CNone]
    [] OTHER -> [ok |-> TRUE, val |-> CNone]

power(c) == c.kind \in {"Diamond", "Cross", "Moon"} /\ c.power

(* ------------------------------- rooms -------------------------------- *)
\* connections are indexed 0..3 in the code (north, east, south, west);
\* the tuple here is 1-based, At(t, i) reads code index i
At(t, i) == t[i + 1]

Throne == [throne |-> TRUE, name |-> "Throne Room (White)", treasure |-> 0,
           connections |-> <<Wild, Wild, Wild, Wild>>]
WestCross == [throne |-> FALSE, name |-> "Small Vault", treasure |-> 1,
              connections |-> <<CNone, CNone, CNone, Cross(FALSE)>>]
EastDiamond == [throne |-> FALSE, name |-> "Small Vault", treasure |-> 1,
                connections |-> <<CNone, Diamond(FALSE), CNone, CNone>>]
SouthMoon == [throne |-> FALSE, name |-> "Small Vault", treasure |-> 1,
              connections |-> <<CNone, CNone, Moon(FALSE), CNone>>]
NorthCross == [throne |-> FALSE, name |-> "Small Vault", treasure |-> 1,
               connections |-> <<Cross(FALSE), CNone, CNone, CNone>>]
Corner == [throne |-> FALSE, name |-> "Corner", treasure |-> 0,
           connections |-> <<CNone, CNone, Diamond(FALSE), Wild>>]

\* the shop of the tests
TestShop == <<WestCross, EastDiamond, SouthMoon, NorthCross>>
\* the shop the driver draws from
Shop == <<WestCross, Corner>>
\* a treasure room with a powered connector, and the shop of the building
\* driver
Vault == [throne |-> FALSE, name |-> "Vault", treasure |-> 2,
          connections |-> <<CNone, CNone, Diamond(TRUE), Wild>>]
VaultShop == <<Vault, WestCross>>

\* get_rotated_connections turning the tuple the other way
get_rotated_connections_Left(room, rotation) ==
  LET rot == ((rotation % 360) \div 90) * 90
      rotate_num == rot \div 90
  IN SubSeq(room.connections, rotate_num + 1, 4) \o SubSeq(room.connections, 1, rotate_num)

\* connections[4 - rotate_num..] followed by connections[..4 - rotate_num]
get_rotated_connections(room, rotation) ==
  LET rot == ((rotation % 360) \div 90) * 90
      rotate_num == rot \div 90
  IN SubSeq(room.connections, 4 - rotate_num + 1, 4) \o SubSeq(room.connections, 1, 4 - rotate_num)

PlacedRoom_from(room, rotation) == [info |-> room, rotation |-> rotation]
rotate(placed, rotation) == [info |-> placed.info, rotation |-> rotation]
get_connections(placed) == get_rotated_connections(placed.info, placed.rotation)

(* ------------------------------ castle -------------------------------- *)
connecting(pos) ==
  <<  <<pos[1], pos[2] - 1>>, <<pos[1] + 1, pos[2]>>, <<pos[1], pos[2] + 1>>, <<pos[1] - 1, pos[2]>>  >>

Keys(c) == DOMAIN c.rooms
Len_rooms(c) == Cardinality(DOMAIN c.rooms)
Insert(rooms, pos, r) == [p \in (DOMAIN rooms) \cup {pos} |-> IF p = pos THEN r ELSE rooms[p]]
Remove(rooms, pos) == [p \in (DOMAIN rooms) \ {pos} |-> rooms[p]]
EmptyRooms == [p \in {} |-> PlacedRoom_from(Throne, 0)]

Castle_new(starting_room) ==
  [rooms |-> Insert(EmptyRooms, <<0, 0>>, PlacedRoom_from(starting_room, 0)), damage |-> 0]

\* is_lost with a strict comparison of damage and room count
is_lost_Strict(c) ==
  \/ c.damage > Len_rooms(c)
  \/ \A p \in Keys(c) : ~c.rooms[p].info.throne

is_lost(c) ==
  \/ c.damage >= Len_rooms(c)
  \/ \A p \in Keys(c) : ~c.rooms[p].info.throne

\* the facing pair of connectors in direction i of pos, when a room is at pos
\* (room given explicitly) and the neighbour is occupied
Facing(c, room, pos, i) ==
  <<At(get_connections(room), i), At(get_connections(c.rooms[At(connecting(pos), i)]), (i + 2) % 4)>>

OccupiedDirs(c, pos) == {i \in 0..3 : At(connecting(pos), i) \in Keys(c)}

\* the loop of can_place_room from direction i on, count connections found so
\* far; a Some(false) sets connect = false and breaks
RECURSIVE place_loop(_, _, _, _, _)
place_loop(c, room, pos, i, count) ==
  IF i = 4 THEN count > 0
  ELSE IF At(connecting(pos), i) \in Keys(c) THEN
    LET f == Facing(c, room, pos, i)
        is_connected == connect(f[1], f[2])
    IN IF is_connected = "SomeTrue" THEN place_loop(c, room, pos, i + 1, count + 1)
       ELSE IF is_connected = "SomeFalse" THEN FALSE
       ELSE place_loop(c, room, pos, i + 1, count)
  ELSE place_loop(c, room, pos, i + 1, count)

\* can_place_room whose result does not require a connection
can_place_room_NoTouch(c, room, pos) ==
  \A i \in OccupiedDirs(c, pos) : connect(Facing(c, room, pos, i)[1], Facing(c, room, pos, i)[2]) # "SomeFalse"

can_place_room(c, room, pos) ==
  place_loop(c, room, pos, 0, 0)

\* defined only for occupied pos (the callers unwrap)
room_num_connected(c, pos) ==
  Cardinality({i \in OccupiedDirs(c, pos) :
     LET f == Facing(c, c.rooms[pos], pos, i) IN connect(f[1], f[2]) = "SomeTrue"})

room_is_outer(c, pos) == room_num_connected(c, pos) = 1

(* --------------------------- u8 arithmetic ---------------------------- *)
\* damage is a u8: with overflow checks (debug profile) an overflowing += or
\* -= panics, without them (release profile) it wraps modulo 256
AddU8(a, b) == [panic |-> overflow_checks /\ a + b > 255, val |-> (a + b) % 256]
SubU8(a, b) == [panic |-> overflow_checks /\ a < b, val |-> (a - b + 256) % 256]

\* results of the fallible operations: err is "Ok", a CastleError, or "Panic"
Res(e, c) == [err |-> e, castle |-> c]

(* ------------------------------- links -------------------------------- *)
\* one entry per (position, occupied direction): the link seen from pos
LinkAt(c, pos, i) ==
  LET f == Facing(c, c.rooms[pos], pos, i) IN link(f[1], f[2])

Visits(c) == {<<p, i>> \in Keys(c) \X (0..3) : At(connecting(p), i) \in Keys(c)}

Tally(c, k) == Cardinality({v \in Visits(c) : LinkAt(c, v[1], v[2]).val.kind = k})

\* [panic, diamond, cross, moon, wild]: panic is the panic! of the else branch
get_links(c) ==
  IF \E v \in Visits(c) : ~LinkAt(c, v[1], v[2]).ok
  THEN [panic |-> TRUE, diamond |-> 0, cross |-> 0, moon |-> 0, wild |-> 0]
  ELSE [panic |-> FALSE, diamond |-> Tally(c, "Diamond") \div 2, cross |-> Tally(c, "Cross") \div 2,
        moon |-> Tally(c, "Moon") \div 2, wild |-> Tally(c, "Wild") \div 2]

\* BTreeMap iteration order of (i8, i8) keys
PosLess(p, q) == p[1] < q[1] \/ (p[1] = q[1] /\ p[2] < q[2])

RECURSIVE InKeyOrder(_)
InKeyOrder(S) ==
  IF S = {} THEN <<>>
  ELSE LET m == CHOOSE p \in S : \A q \in S \ {p} : PosLess(p, q)
       IN <<m>> \o InKeyOrder(S \ {m})

(* ------------------------------ treasure ------------------------------ *)
\* room_is_powered that asks for a neighbour and not for a powered link
room_is_powered_Neighbour(c, pos) ==
  LET connections == get_connections(c.rooms[pos])
  IN \A i \in 0..3 :
       power(At(connections, i)) => At(connecting(pos), i) \in Keys(c)

\* defined only for occupied pos (get_treasure unwraps): every direction
\* whose own connector is powered needs a neighbour and a powered Ok link
room_is_powered(c, pos) ==
  LET connections == get_connections(c.rooms[pos])
  IN \A i \in 0..3 :
       power(At(connections, i)) =>
         /\ At(connecting(pos), i) \in Keys(c)
         /\ LET l == link(At(connections, i),
                          At(get_connections(c.rooms[At(connecting(pos), i)]), (i + 2) % 4))
            IN l.ok /\ power(l.val)

\* the loop `treasure += room.info.treasure` over keys[k..]
RECURSIVE treasure_loop(_, _, _, _)
treasure_loop(c, keys, k, treasure) ==
  IF k > Len(keys) THEN [panic |-> FALSE, val |-> treasure]
  ELSE IF c.rooms[keys[k]].info.treasure > 0 /\ room_is_powered(c, keys[k]) THEN
    LET t == AddU8(treasure, c.rooms[keys[k]].info.treasure)
    IN IF t.panic THEN [panic |-> TRUE, val |-> 0] ELSE treasure_loop(c, keys, k + 1, t.val)
  ELSE treasure_loop(c, keys, k + 1, treasure)

get_treasure(c) ==
  treasure_loop(c, InKeyOrder(Keys(c)), 1, 0)

(* ------------------------------ actions ------------------------------- *)
\* action_place without the pending-damage check
action_place_NoGate(c, room, pos, rot) ==
  IF pos \in Keys(c) THEN Res("TakenPosition", c)
  ELSE IF ~can_place_room(c, PlacedRoom_from(room, rot), pos) THEN Res("InvalidConnection", c)
  ELSE Res("Ok", [c EXCEPT !.rooms = Insert(c.rooms, pos, PlacedRoom_from(room, rot))])

\* action_place without the occupied-position check
action_place_Overwrites(c, room, pos, rot) ==
  IF c.damage > 0 THEN Res("MustDiscard", c)
  ELSE IF ~can_place_room(c, PlacedRoom_from(room, rot), pos) THEN Res("InvalidConnection", c)
  ELSE Res("Ok", [c EXCEPT !.rooms = Insert(c.rooms, pos, PlacedRoom_from(room, rot))])

action_place(c, room, pos, rot) ==
  IF c.damage > 0 THEN Res("MustDiscard", c)
  ELSE IF pos \in Keys(c) THEN Res("TakenPosition", c)
  ELSE IF ~can_place_room(c, PlacedRoom_from(room, rot), pos) THEN Res("InvalidConnection", c)
  ELSE Res("Ok", [c EXCEPT !.rooms = Insert(c.rooms, pos, PlacedRoom_from(room, rot))])

\* action_move that takes the room out of `from` and never puts it back
action_move_Drops(c, from, to, rot) ==
  IF c.damage > 0 THEN Res("MustDiscard", c)
  ELSE IF from = to THEN Res("InvalidPosition", c)
  ELSE IF from \in Keys(c) THEN
    IF ~room_is_outer(c, from) THEN Res("NotOuterRoom", c)
    ELSE IF to \in Keys(c) THEN Res("TakenPosition", c)
    ELSE LET room == c.rooms[from]
             removed == [c EXCEPT !.rooms = Remove(c.rooms, from)]
         IN IF ~can_place_room(removed, rotate(room, rot), to) THEN Res("InvalidConnection", c)
            ELSE Res("Ok", removed)
  ELSE Res("EmptyPosition", c)

\* action_move testing the destination before the outer-room rule
action_move_TakenFirst(c, from, to, rot) ==
  IF c.damage > 0 THEN Res("MustDiscard", c)
  ELSE IF from = to THEN Res("InvalidPosition", c)
  ELSE IF from \in Keys(c) THEN
    IF to \in Keys(c) THEN Res("TakenPosition", c)
    ELSE IF ~room_is_outer(c, from) THEN Res("NotOuterRoom", c)
    ELSE LET room == c.rooms[from]
             removed == [c EXCEPT !.rooms = Remove(c.rooms, from)]
         IN IF ~can_place_room(removed, rotate(room, rot), to) THEN Res("InvalidConnection", c)
            ELSE Res("Ok", [removed EXCEPT !.rooms = Insert(removed.rooms, to, room)])
  ELSE Res("EmptyPosition", c)

action_move(c, from, to, rot) ==
  IF c.damage > 0 THEN Res("MustDiscard", c)
  ELSE IF from = to THEN Res("InvalidPosition", c)
  ELSE IF from \in Keys(c) THEN
    IF ~room_is_outer(c, from) THEN Res("NotOuterRoom", c)
    ELSE IF to \in Keys(c) THEN Res("TakenPosition", c)
    ELSE LET room == c.rooms[from]
             removed == [c EXCEPT !.rooms = Remove(c.rooms, from)]
         IN IF ~can_place_room(removed, rotate(room, rot), to) THEN Res("InvalidConnection", c)
            \* the room value taken out of `from` is inserted, not room.rotate(rot)
            ELSE Res("Ok", [removed EXCEPT !.rooms = Insert(removed.rooms, to, room)])
  ELSE Res("EmptyPosition", c)

\* action_swap validating only the first leg
action_swap_OneLeg(c, pos_1, pos_2) ==
  IF c.damage > 0 THEN Res("MustDiscard", c)
  ELSE IF pos_1 = pos_2 THEN Res("InvalidPosition", c)
  ELSE IF pos_1 \in Keys(c) /\ pos_2 \in Keys(c) THEN
    LET room1 == c.rooms[pos_1]
        room2 == c.rooms[pos_2]
        none == Remove(Remove(c.rooms, pos_1), pos_2)
        first == [c EXCEPT !.rooms = Insert(none, pos_1, room2)]
        second == [c EXCEPT !.rooms = Insert(none, pos_2, room1)]
    IN IF ~can_place_room(first, room1, pos_2) THEN Res("InvalidConnection", c)
       ELSE Res("Ok", [c EXCEPT !.rooms = Insert(second.rooms, pos_1, room2)])
  ELSE Res("EmptyPosition", c)

action_swap(c, pos_1, pos_2) ==
  IF c.damage > 0 THEN Res("MustDiscard", c)
  ELSE IF pos_1 = pos_2 THEN Res("InvalidPosition", c)
  ELSE IF pos_1 \in Keys(c) /\ pos_2 \in Keys(c) THEN
    LET room1 == c.rooms[pos_1]
        room2 == c.rooms[pos_2]
        none == Remove(Remove(c.rooms, pos_1), pos_2)
        first == [c EXCEPT !.rooms = Insert(none, pos_1, room2)]
        second == [c EXCEPT !.rooms = Insert(none, pos_2, room1)]
    IN IF ~can_place_room(first, room1, pos_2) THEN Res("InvalidConnection", c)
       ELSE IF ~can_place_room(second, room2, pos_1) THEN Res("InvalidConnection", c)
       ELSE Res("Ok", [c EXCEPT !.rooms = Insert(second.rooms, pos_1, room2)])
  ELSE Res("EmptyPosition", c)

\* remove pos and lower damage by one (the two identical success branches)
DiscardCommit(c, pos) ==
  LET d == SubU8(c.damage, 1)
  IN IF d.panic THEN Res("Panic", c)
     ELSE Res("Ok", [rooms |-> Remove(c.rooms, pos), damage |-> d.val])

\* action_discard_one without the outer-rooms-first tier
action_discard_one_NoTier(c, pos) ==
  IF pos \notin Keys(c) THEN Res("EmptyPosition", c)
  ELSE IF c.rooms[pos].info.throne /\ Len_rooms(c) > 1 THEN Res("NotOuterRoom", c)
  ELSE LET nearly_outer_pos == {p \in Keys(c) : ~c.rooms[p].info.throne /\ room_num_connected(c, p) <= 2}
       IN IF Cardinality(nearly_outer_pos) > 0 THEN
            IF room_num_connected(c, pos) <= 2 THEN DiscardCommit(c, pos) ELSE Res("NotNearlyOuterRoom", c)
          ELSE Res("MustDiscard", c)

action_discard_one(c, pos) ==
  IF pos \notin Keys(c) THEN Res("EmptyPosition", c)
  ELSE IF c.rooms[pos].info.throne /\ Len_rooms(c) > 1 THEN Res("NotOuterRoom", c)
  ELSE LET outer_pos == {p \in Keys(c) : ~c.rooms[p].info.throne /\ room_is_outer(c, p)}
           nearly_outer_pos == {p \in Keys(c) : ~c.rooms[p].info.throne /\ room_num_connected(c, p) <= 2}
       IN IF Cardinality(outer_pos) > 0 THEN
            IF room_is_outer(c, pos) THEN DiscardCommit(c, pos) ELSE Res("NotOuterRoom", c)
          ELSE IF Cardinality(nearly_outer_pos) > 0 THEN
            IF room_num_connected(c, pos) <= 2 THEN DiscardCommit(c, pos) ELSE Res("NotNearlyOuterRoom", c)
          ELSE Res("MustDiscard", c)

\* the loop `castle = castle.action_discard_one(pos)?` over poses[k..]
RECURSIVE discard_loop(_, _, _)
discard_loop(cur, poses, k) ==
  IF k > Len(poses) THEN Res("Ok", cur)
  ELSE LET r == action_discard_one(cur, poses[k])
       IN IF r.err # "Ok" THEN r ELSE discard_loop(r.castle, poses, k + 1)

action_discard(c, poses) ==
  IF c.damage = 0 THEN Res("NoDamage", c)
  ELSE LET r == discard_loop(c, poses, 1)
       IN IF r.err # "Ok" THEN Res(r.err, c)
          \* the final test reads self.damage, the damage before the discards
          ELSE IF c.damage > 0 THEN Res("MustDiscard", c)
          ELSE Res("Ok", r.castle)

\* one `if amount > link { castle.damage += amount - link }`
AddExcess(d, amount, links) ==
  IF d.panic THEN d
  ELSE IF amount > links THEN AddU8(d.val, amount - links)
  ELSE d

\* action_damage that clears the rooms only when damage exceeds their number
DamageWith_Late(c, links, diamond_damage, cross_damage, moon_damage) ==
  LET d3 == AddExcess(AddExcess(AddExcess([panic |-> links.panic, val |-> c.damage],
                 diamond_damage, links.diamond), cross_damage, links.cross), moon_damage, links.moon)
      d4 == IF d3.val > links.wild THEN d3.val - links.wild ELSE d3.val
  IN IF d3.panic THEN Res("Panic", c)
     ELSE IF d4 > Len_rooms(c) THEN Res("Ok", [rooms |-> EmptyRooms, damage |-> d4 - Len_rooms(c)])
     ELSE Res("Ok", [rooms |-> c.rooms, damage |-> d4])

\* the body of action_damage after `let (..) = self.get_links()`
DamageWith(c, links, diamond_damage, cross_damage, moon_damage) ==
  LET d3 == AddExcess(AddExcess(AddExcess([panic |-> links.panic, val |-> c.damage],
                 diamond_damage, links.diamond), cross_damage, links.cross), moon_damage, links.moon)
      d4 == IF d3.val > links.wild THEN d3.val - links.wild ELSE d3.val
  IN IF d3.panic THEN Res("Panic", c)
     ELSE IF d4 >= Len_rooms(c) THEN Res("Ok", [rooms |-> EmptyRooms, damage |-> d4 - Len_rooms(c)])
     ELSE Res("Ok", [rooms |-> c.rooms, damage |-> d4])

action_damage(c, diamond_damage, cross_damage, moon_damage) ==
  DamageWith(c, get_links(c), diamond_damage, cross_damage, moon_damage)

Place(room, pos, rot) == [kind |-> "Place", room |-> room, pos |-> pos, rot |-> rot]
Move(from, to, rot) == [kind |-> "Move", from |-> from, to |-> to, rot |-> rot]
Swap(pos_1, pos_2) == [kind |-> "Swap", pos_1 |-> pos_1, pos_2 |-> pos_2]
Discard(poses) == [kind |-> "Discard", poses |-> poses]
Damage(diamond, cross, moon) == [kind |-> "Damage", diamond |-> diamond, cross |-> cross, moon |-> moon]

apply(c, action) ==
  CASE action.kind = "Place" -> action_place(c, action.room, action.pos, action.rot)
    [] action.kind = "Move" -> action_move(c, action.from, action.to, action.rot)
    [] action.kind = "Swap" -> action_swap(c, action.pos_1, action.pos_2)
    [] action.kind = "Discard" -> action_discard(c, action.poses)
    [] action.kind = "Damage" -> action_damage(c, action.diamond, action.cross, action.moon)

(* ---------------------------- enumeration ----------------------------- *)
possible_discard(c) ==
  IF is_lost(c) THEN <<>>
  ELSE IF Len_rooms(c) = 1 THEN InKeyOrder(Keys(c))
  ELSE LET outer == {p \in Keys(c) : room_is_outer(c, p) /\ ~c.rooms[p].info.throne}
           nearly == {p \in Keys(c) : room_num_connected(c, p) <= 2 /\ ~c.rooms[p].info.throne}
       IN IF Cardinality(outer) > 0 THEN InKeyOrder(outer) ELSE InKeyOrder(nearly)

\* castle.possible_discard().map(|pos| (castle.action_discard_one(pos).unwrap(), vec![pos]))
\* the unwrap panics on an Err
Expand(c) ==
  LET ps == possible_discard(c)
      rs == [k \in 1..Len(ps) |-> action_discard_one(c, ps[k])]
  IN [panic |-> \E k \in 1..Len(ps) : rs[k].err # "Ok",
      value |-> [k \in 1..Len(ps) |-> [castle |-> rs[k].castle, discards |-> <<ps[k]>>]]]

\* the `while let Some(..) = queue.pop()` loop
RECURSIVE discards_loop(_, _)
discards_loop(queue, possible) ==
  IF queue = <<>> THEN [panic |-> FALSE, value |-> possible]
  ELSE LET top == queue[Len(queue)]
           rest == SubSeq(queue, 1, Len(queue) - 1)
       IN IF top.castle.damage = 0 THEN discards_loop(rest, Append(possible, top.discards))
          ELSE LET ex == Expand(top.castle)
               IN IF ex.panic THEN [panic |-> TRUE, value |-> <<>>]
                  ELSE discards_loop(rest \o ex.value, possible)

all_possible_discards(c) ==
  LET seed == Expand(c)
  IN IF seed.panic THEN [panic |-> TRUE, value |-> <<>>]
     ELSE discards_loop(seed.value, <<>>)

\* possible_placements that does not skip occupied positions
possible_placements_Taken(c, room) ==
  {con_pos \in UNION {{At(connecting(pos), i) : i \in 0..3} : pos \in Keys(c)} :
     can_place_room(c, room, con_pos)}

\* a HashSet of positions: its order is unspecified, so a set
possible_placements(c, room) ==
  {con_pos \in UNION {{At(connecting(pos), i) : i \in 0..3} : pos \in Keys(c)} :
     con_pos \notin Keys(c) /\ can_place_room(c, room, con_pos)}

possible_moves(c, from, rotation) ==
  IF from \in Keys(c) /\ room_is_outer(c, from)
  THEN {to \in possible_placements([c EXCEPT !.rooms = Remove(c.rooms, from)], rotate(c.rooms[from], rotation)) : from # to}
  ELSE {}

\* possible_swaps that pairs from only with the later positions
possible_swaps_Once(c, from) ==
  IF from \in Keys(c)
  THEN {pos_2 \in Keys(c) : PosLess(from, pos_2) /\ can_place_room(c, c.rooms[from], pos_2)
                             /\ can_place_room(c, c.rooms[pos_2], from)}
  ELSE {}

possible_swaps(c, from) ==
  IF from \in Keys(c)
  THEN {pos_2 \in Keys(c) : from # pos_2 /\ can_place_room(c, c.rooms[from], pos_2)
                             /\ can_place_room(c, c.rooms[pos_2], from)}
  ELSE {}

all_possible_placements(c, shop) ==
  UNION {{<<i, pos>> : pos \in possible_placements(c, PlacedRoom_from(shop[i], 0))} : i \in 1..Len(shop)}

all_possible_moves(c) == UNION {{<<from, to>> : to \in possible_moves(c, from, 0)} : from \in Keys(c)}

all_possible_swaps(c) == UNION {{<<pos_1, pos_2>> : pos_2 \in possible_swaps(c, pos_1)} : pos_1 \in Keys(c)}

\* the Vec all_possible_swaps builds: for pos_1 in key order, the pos_2 of
\* possible_swaps(pos_1) in key order
RECURSIVE swaps_loop(_, _, _)
swaps_loop(c, keys, k) ==
  IF k > Len(keys) THEN <<>>
  ELSE LET found == InKeyOrder(possible_swaps(c, keys[k]))
       IN [n \in 1..Len(found) |-> <<keys[k], found[n]>>] \o swaps_loop(c, keys, k + 1)

all_possible_swaps_vec(c) == swaps_loop(c, InKeyOrder(Keys(c)), 1)

\* [panic, value]: the actions as a set (placements come out of a HashSet)
possible_actions(c, shop) ==
  IF c.damage > 0
  THEN LET ds == all_possible_discards(c)
       IN [panic |-> ds.panic, value |-> {Discard(ds.value[k]) : k \in 1..Len(ds.value)}]
  ELSE [panic |-> FALSE,
        value |-> {Place(shop[e[1]], e[2], 0) : e \in all_possible_placements(c, shop)}
                  \cup {Move(e[1], e[2], 0) : e \in all_possible_moves(c)}
                  \cup {Swap(e[1], e[2]) : e \in all_possible_swaps(c)}]

(* ---------------------------- the driver ------------------------------ *)
\* An external driver holds a castle, applies one action at a time and keeps
\* the returned castle on Ok; on an error it keeps the castle it had.  A
\* panic ends the process.  overflow_checks is the build profile.
Init ==
  /\ castle = Castle_new(Throne)
  /\ overflow_checks \in BOOLEAN
  /\ panicked = FALSE

Step(r) ==
  /\ r.err \in {"Ok", "Panic"}
  /\ castle' = IF r.err = "Ok" THEN r.castle ELSE castle
  /\ panicked' = (r.err = "Panic")
  /\ UNCHANGED overflow_checks

DoPlace ==
  /\ ~panicked
  /\ Len_rooms(castle) < MaxRooms
  /\ \E i \in 1..Len(Shop), pos \in Grid, rot \in Rots :
       \E r \in {apply(castle, Place(Shop[i], pos, rot))} : Step(r)

DoMove ==
  /\ ~panicked
  /\ \E from \in Grid, to \in Grid, rot \in Rots :
       \E r \in {apply(castle, Move(from, to, rot))} : Step(r)

DoSwap ==
  /\ ~panicked
  /\ \E pos_1 \in Grid, pos_2 \in Grid :
       \E r \in {apply(castle, Swap(pos_1, pos_2))} : Step(r)

\* position lists offered to Discard: lists of distinct positions among the
\* occupied ones and (0,0)
PosLists(c) ==
  {poses \in UNION {[1..n -> Keys(c) \cup {<<0, 0>>}] : n \in 1..MaxDiscards} :
     \A j \in 1..Len(poses), k \in 1..Len(poses) : j # k => poses[j] # poses[k]}

DoDiscard ==
  /\ ~panicked
  /\ castle.damage > 0
  /\ \E poses \in PosLists(castle) :
       \E r \in {apply(castle, Discard(poses))} : Step(r)

\* apply(castle, Damage(..)); get_links reads the castle alone, so it is
\* evaluated once for all the amounts
DoDamage ==
  /\ ~panicked
  /\ \E links \in {get_links(castle)} :
       \E diamond \in Amounts, cross \in Amounts, moon \in Amounts :
         \E r \in {DamageWith(castle, links, diamond, cross, moon)} : Step(r)

\* the driver asks for the legal actions and applies one of them
DoPossible ==
  /\ ~panicked
  /\ \E acts \in {possible_actions(castle, Shop)} :
       IF acts.panic THEN Step(Res("Panic", castle))
       ELSE \E a \in acts.value :
              /\ a.kind = "Place" => (a.pos \in Grid /\ Len_rooms(castle) < MaxRooms)
              /\ a.kind = "Move" => a.to \in Grid
              /\ \E r \in {apply(castle, a)} : Step(r)

\* the driver asks for the discard sequences alone
DoAllPossibleDiscards ==
  /\ ~panicked
  /\ \E ds \in {all_possible_discards(castle)} :
       Step(Res(IF ds.panic THEN "Panic" ELSE "Ok", castle))

Next ==
  \/ DoPlace
  \/ DoMove
  \/ DoSwap
  \/ DoDiscard
  \/ DoDamage
  \/ DoPossible
  \/ DoAllPossibleDiscards

Spec == Init /\ [][Next]_vars

(* ------------------------- the building driver ------------------------ *)
\* A driver that only buys: it places rooms of VaultShop in any of the four
\* rotations, takes damage, discards and reads the score.
MaxBuilt == 4
Turns == {0, 90, 180, 270}

DoBuild ==
  /\ ~panicked
  /\ Len_rooms(castle) < MaxBuilt
  /\ \E i \in 1..Len(VaultShop), pos \in Grid, rot \in Turns :
       \E r \in {apply(castle, Place(VaultShop[i], pos, rot))} : Step(r)

\* castle.get_treasure(): the castle is left as it is
DoTreasure ==
  /\ ~panicked
  /\ \E t \in {get_treasure(castle)} :
       Step(Res(IF t.panic THEN "Panic" ELSE "Ok", castle))

NextBuild ==
  \/ DoBuild
  \/ DoDamage
  \/ DoDiscard
  \/ DoTreasure

SpecBuild == Init /\ [][NextBuild]_vars

(* ===================== claims about the driver ======================== *)
\* the inputs the claims range over
PlaceInputs == {Place(room, pos, rot) : room \in {Shop[i] : i \in 1..Len(Shop)} \cup {Throne}, pos \in Grid, rot \in Rots}
MoveInputs == {Move(from, to, rot) : from \in Grid, to \in Grid, rot \in Rots}
SwapInputs == {Swap(pos_1, pos_2) : pos_1 \in Grid, pos_2 \in Grid}
DiscardInputs(c) == {Discard(poses) : poses \in PosLists(c) \cup {<<>>}}

\* C1: every action possible_actions returns is accepted by apply on the same
\* castle (apply returns Ok), be it a Place, Move, Swap or Discard.
C1_PossibleAccepted ==
  ~panicked =>
    \A acts \in {possible_actions(castle, Shop)} :
      ~acts.panic /\ \A a \in acts.value : apply(castle, a).err = "Ok"

\* C2: with damage > 0, a Discard whose single discards are all eligible at
\* their step returns Ok exactly when the damage left after the last discard
\* is 0, the result being the castle after those discards with damage 0;
\* otherwise it fails with MustDiscard.
C2_DiscardZeroesDamage ==
  (~panicked /\ castle.damage > 0) =>
    \A poses \in PosLists(castle) :
      \A steps \in {discard_loop(castle, poses, 1)} :
        steps.err = "Ok" =>
          \A r \in {apply(castle, Discard(poses))} :
            /\ (r.err = "Ok") <=> (steps.castle.damage = 0)
            /\ r.err = "Ok" => (r.castle = steps.castle /\ r.castle.damage = 0
                                /\ Keys(r.castle) = Keys(castle) \ {poses[k] : k \in 1..Len(poses)})
            /\ r.err # "Ok" => r.err = "MustDiscard"

\* C3: while damage > 0 every Place, Move and Swap fails with MustDiscard and
\* possible_actions returns Discard actions only; while damage = 0 every
\* Discard fails with NoDamage.
C3_DamageGates ==
  ~panicked =>
    /\ castle.damage > 0 =>
         /\ \A a \in PlaceInputs \cup MoveInputs \cup SwapInputs : apply(castle, a).err = "MustDiscard"
         /\ \A acts \in {possible_actions(castle, Shop)} :
              ~acts.panic /\ \A a \in acts.value : a.kind = "Discard"
    /\ castle.damage = 0 =>
         \A a \in DiscardInputs(castle) : apply(castle, a).err = "NoDamage"

\* a damaged castle that still has rooms to discard, some sequence being offered
C3_Witness ==
  /\ ~panicked
  /\ castle.damage > 0
  /\ Len_rooms(castle) >= 2
  /\ possible_actions(castle, Shop).value # {}
  /\ \E a \in PlaceInputs : apply([castle EXCEPT !.damage = 0], a).err = "Ok"

\* the damage the three additions of action_damage reach without wrapping
DamageSum(c, links, diamond, cross, moon) ==
  c.damage + (IF diamond > links.diamond THEN diamond - links.diamond ELSE 0)
           + (IF cross > links.cross THEN cross - links.cross ELSE 0)
           + (IF moon > links.moon THEN moon - links.moon ELSE 0)

\* C4: apply(Damage(d, c, m)) never fails: it returns Ok for every castle and
\* every triple of amounts, get_links does not panic and the u8 damage counter
\* neither overflows nor underflows.
C4_DamageNeverFails ==
  ~panicked =>
    \A links \in {get_links(castle)} :
      /\ ~links.panic
      /\ \A diamond \in Amounts, cross \in Amounts, moon \in Amounts :
           /\ apply(castle, Damage(diamond, cross, moon)).err = "Ok"
           /\ DamageSum(castle, links, diamond, cross, moon) <= 255

\* C5: after a successful Move(from, to, rot), from is empty, to holds the
\* same room template with rotation rot, every other position and the damage
\* are unchanged, and so is the room count.
C5_MoveRotates ==
  ~panicked =>
    \A a \in MoveInputs :
      \A r \in {apply(castle, a)} :
        r.err = "Ok" =>
          /\ a.from \notin Keys(r.castle)
          /\ a.to \in Keys(r.castle)
          /\ r.castle.rooms[a.to] = [info |-> castle.rooms[a.from].info, rotation |-> a.rot]
          /\ \A p \in Keys(castle) \ {a.from} : p \in Keys(r.castle) /\ r.castle.rooms[p] = castle.rooms[p]
          /\ Keys(r.castle) \ {a.to} = Keys(castle) \ {a.from}
          /\ r.castle.damage = castle.damage
          /\ Len_rooms(r.castle) = Len_rooms(castle)

\* C6 as stated: (0,0) is occupied unless the castle has been wiped.
C6_OriginOccupied == Keys(castle) # {} => <<0, 0>> \in Keys(castle)

\* C6 amended: unless the castle has been wiped, the throne room it was
\* created from is still in it, though a Move may have taken it away from (0,0).
C6_ThroneKept == Keys(castle) # {} => \E p \in Keys(castle) : castle.rooms[p].info = Throne

\* the throne has been moved off (0,0), which is left empty
C6_Witness ==
  /\ Keys(castle) # {}
  /\ <<0, 0>> \notin Keys(castle)
  /\ \E p \in Keys(castle) : castle.rooms[p].info = Throne

\* the facing pair across an edge is erroneous: a None against a non-None,
\* or two typed connectors of different kinds
Erroneous(a, b) ==
  \/ (a.kind = "None") # (b.kind = "None")
  \/ /\ a.kind \in {"Diamond", "Cross", "Moon"}
     /\ b.kind \in {"Diamond", "Cross", "Moon"}
     /\ a.kind # b.kind

\* C7: no two adjacent rooms ever face each other with an erroneous pair of
\* connectors.
C7_NoErroneousLink ==
  \A v \in Visits(castle) :
    \A f \in {Facing(castle, castle.rooms[v[1]], v[1], v[2])} : ~Erroneous(f[1], f[2])

\* positions joined to p by an active connection
Joined(c, p) ==
  {At(connecting(p), i) : i \in {j \in OccupiedDirs(c, p) :
     \E f \in {Facing(c, c.rooms[p], p, j)} : connect(f[1], f[2]) = "SomeTrue"}}

RECURSIVE Reach(_, _)
Reach(c, S) ==
  LET T == S \cup UNION {Joined(c, p) : p \in S}
  IN IF T = S THEN S ELSE Reach(c, T)

\* C8: no room floats: with two or more rooms every room has an active
\* connection to a neighbour and the rooms form one connected structure.
C8_NoFloating ==
  Len_rooms(castle) >= 2 =>
    /\ \A p \in Keys(castle) : room_num_connected(castle, p) >= 1
    /\ \A p \in Keys(castle) : Reach(castle, {p}) = Keys(castle)

\* every position list over the occupied positions, up to the room count
RECURSIVE SeqsUpTo(_, _)
SeqsUpTo(S, n) == IF n = 0 THEN {<<>>} ELSE {<<>>} \cup {<<x>> \o t : x \in S, t \in SeqsUpTo(S, n - 1)}

\* C9: with damage > 0, all_possible_discards returns exactly the position
\* sequences whose single discards are eligible in order from the castle and
\* leave damage 0.
C9_DiscardSequences ==
  (~panicked /\ castle.damage > 0) =>
    \A ds \in {all_possible_discards(castle)} :
      /\ ~ds.panic
      /\ {ds.value[k] : k \in 1..Len(ds.value)} =
           {poses \in SeqsUpTo(Keys(castle), Len_rooms(castle)) \ {<<>>} :
              \E steps \in {discard_loop(castle, poses, 1)} :
                steps.err = "Ok" /\ steps.castle.damage = 0}

\* C10: with damage = 0, all_possible_discards returns the empty list and
\* does not panic.
C10_NoDamageNoDiscards ==
  (~panicked /\ castle.damage = 0) =>
    all_possible_discards(castle) = [panic |-> FALSE, value |-> <<>>]

\* the castle the damage rule of the specification yields from total T
DamageRule(c, links, diamond, cross, moon) ==
  LET T == DamageSum(c, links, diamond, cross, moon)
      T1 == IF T > links.wild THEN T - links.wild ELSE T
  IN IF T1 >= Len_rooms(c) THEN [rooms |-> EmptyRooms, damage |-> T1 - Len_rooms(c)]
     ELSE [rooms |-> c.rooms, damage |-> T1]

\* C11: Damage(dm, cr, mo) yields T = D + max(dm-dl,0) + max(cr-cl,0) +
\* max(mo-ml,0), then T' = T - wl if T > wl else T; if T' >= n the rooms are
\* cleared and damage = T' - n, otherwise rooms unchanged and damage = T'.
C11_DamageFormula ==
  ~panicked =>
    \A links \in {get_links(castle)} :
      \A diamond \in Amounts, cross \in Amounts, moon \in Amounts :
        \A r \in {apply(castle, Damage(diamond, cross, moon))} :
          r.err = "Ok" /\ r.castle = DamageRule(castle, links, diamond, cross, moon)

\* C12: Place fails with MustDiscard if damage > 0, else TakenPosition if pos
\* is occupied, else InvalidConnection if can_place_room fails; otherwise the
\* result differs from the input only by the new entry pos -> (room, rot), the
\* room count grows by 1, damage stays 0, and the same Place applied to the
\* result fails with TakenPosition.
C12_PlaceContract ==
  ~panicked =>
    \A a \in PlaceInputs :
      \A r \in {apply(castle, a)} :
        /\ r.err = IF castle.damage > 0 THEN "MustDiscard"
                   ELSE IF a.pos \in Keys(castle) THEN "TakenPosition"
                   ELSE IF ~can_place_room(castle, [info |-> a.room, rotation |-> a.rot], a.pos)
                     THEN "InvalidConnection"
                   ELSE "Ok"
        /\ r.err = "Ok" =>
             /\ Keys(r.castle) = Keys(castle) \cup {a.pos}
             /\ r.castle.rooms[a.pos] = [info |-> a.room, rotation |-> a.rot]
             /\ \A p \in Keys(castle) : r.castle.rooms[p] = castle.rooms[p]
             /\ Len_rooms(r.castle) = Len_rooms(castle) + 1
             /\ r.castle.damage = 0
             /\ apply(r.castle, a).err = "TakenPosition"

\* a castle grown by a Place on which a further Place succeeds, another hits
\* an occupied position and another an illegal connection
C12_Witness ==
  /\ ~panicked
  /\ Len_rooms(castle) >= 2
  /\ \E a \in PlaceInputs : apply(castle, a).err = "Ok"
  /\ \E a \in PlaceInputs : apply(castle, a).err = "TakenPosition"
  /\ \E a \in PlaceInputs : apply(castle, a).err = "InvalidConnection"

\* the first failing check of Move in the order of the specification
MoveVerdict(c, a) ==
  IF c.damage > 0 THEN "MustDiscard"
  ELSE IF a.from = a.to THEN "InvalidPosition"
  ELSE IF a.from \notin Keys(c) THEN "EmptyPosition"
  ELSE IF room_num_connected(c, a.from) # 1 THEN "NotOuterRoom"
  ELSE IF a.to \in Keys(c) THEN "TakenPosition"
  ELSE IF ~can_place_room([c EXCEPT !.rooms = Remove(c.rooms, a.from)],
                          [info |-> c.rooms[a.from].info, rotation |-> a.rot], a.to)
    THEN "InvalidConnection"
  ELSE "Ok"

\* C13: Move reports the first failing check in the order MustDiscard,
\* InvalidPosition, EmptyPosition, NotOuterRoom, TakenPosition,
\* InvalidConnection, and on any error the castle is unchanged.
C13_MoveErrorOrder ==
  ~panicked =>
    \A a \in MoveInputs :
      \A r \in {apply(castle, a)} :
        /\ r.err = MoveVerdict(castle, a)
        /\ r.err # "Ok" => r.castle = castle

\* an undamaged castle on which Move meets every one of its errors and also succeeds
C13_Witness ==
  /\ ~panicked
  /\ castle.damage = 0
  /\ \A e \in {"InvalidPosition", "EmptyPosition", "NotOuterRoom", "TakenPosition", "InvalidConnection", "Ok"} :
       \E a \in MoveInputs : apply(castle, a).err = e

\* the castle with the rooms at two occupied positions exchanged
Exchanged(c, p, q) ==
  [c EXCEPT !.rooms = [x \in Keys(c) |-> IF x = p THEN c.rooms[q] ELSE IF x = q THEN c.rooms[p] ELSE c.rooms[x]]]

\* C14: Swap fails with MustDiscard if damage > 0, else InvalidPosition if
\* pos1 = pos2, else EmptyPosition if either position is unoccupied, else
\* InvalidConnection unless room2 validates at pos1 and room1 at pos2; on
\* success exactly the two rooms are exchanged, each keeping its rotation, the
\* rest and the damage unchanged; Swap(pos1, pos2) and Swap(pos2, pos1) have
\* the same outcome.
C14_SwapContract ==
  ~panicked =>
    \A a \in SwapInputs :
      \A r \in {apply(castle, a)} :
        /\ r.err = IF castle.damage > 0 THEN "MustDiscard"
                   ELSE IF a.pos_1 = a.pos_2 THEN "InvalidPosition"
                   ELSE IF a.pos_1 \notin Keys(castle) \/ a.pos_2 \notin Keys(castle) THEN "EmptyPosition"
                   ELSE IF ~(/\ can_place_room(Exchanged(castle, a.pos_1, a.pos_2), castle.rooms[a.pos_2], a.pos_1)
                             /\ can_place_room(Exchanged(castle, a.pos_1, a.pos_2), castle.rooms[a.pos_1], a.pos_2))
                     THEN "InvalidConnection"
                   ELSE "Ok"
        /\ r.err = "Ok" => r.castle = Exchanged(castle, a.pos_1, a.pos_2)
        /\ r.err # "Ok" => r.castle = castle
        /\ apply(castle, Swap(a.pos_2, a.pos_1)) = r

\* an undamaged castle on which one Swap exchanges two different rooms and
\* another is refused for its connections
C14_Witness ==
  /\ ~panicked
  /\ castle.damage = 0
  /\ \E a \in SwapInputs : \E r \in {apply(castle, a)} : r.err = "Ok" /\ r.castle # castle
  /\ \E a \in SwapInputs : apply(castle, a).err = "InvalidConnection"
  /\ \E a \in SwapInputs : apply(castle, a).err = "EmptyPosition"

\* the placed rooms can_place_room is asked about
PlacedInputs == {PlacedRoom_from(room, rot) : room \in {Shop[i] : i \in 1..Len(Shop)} \cup {Throne}, rot \in Rots}

\* C15: can_place_room(room, pos) is true iff, over the directions i with an
\* occupied neighbour, no connect(room.connectors[i], neighbour.connectors[(i+2)
\* mod 4]) is Some(false) and at least one is Some(true); whether pos itself
\* is occupied makes no difference.
\* can_place_room reads the rooms alone and the rooms change only while
\* damage is 0, so the castles with damage 0 hold every room mapping reached.
C15_CanPlaceRoom ==
  castle.damage = 0 =>
  \A room \in PlacedInputs, pos \in Grid :
    \A dirs \in {{i \in 0..3 : At(connecting(pos), i) \in Keys(castle)}} :
      \A outs \in {[i \in dirs |-> connect(At(get_connections(room), i),
                      At(get_connections(castle.rooms[At(connecting(pos), i)]), (i + 2) % 4))]} :
        \A result \in {can_place_room(castle, room, pos)} :
          /\ result <=> ((\A i \in dirs : outs[i] # "SomeFalse") /\ (\E i \in dirs : outs[i] = "SomeTrue"))
          /\ pos \in Keys(castle) =>
               can_place_room([castle EXCEPT !.rooms = Remove(castle.rooms, pos)], room, pos) = result

\* a castle where a room is accepted next to two neighbours, one is refused
\* for a Some(false), and one is accepted at an occupied position
C15_Witness ==
  /\ \E room \in PlacedInputs, pos \in Grid :
       /\ can_place_room(castle, room, pos)
       /\ Cardinality(OccupiedDirs(castle, pos)) >= 2
  /\ \E room \in PlacedInputs, pos \in Grid :
       /\ ~can_place_room(castle, room, pos)
       /\ OccupiedDirs(castle, pos) # {}
  /\ \E room \in PlacedInputs, pos \in Keys(castle) \cap Grid : can_place_room(castle, room, pos)

\* the grid with the ring of positions around it
WideGrid == ((0 - 1)..(MaxX + 1)) \X ((0 - 1)..(MaxY + 1))

\* position pos touches an occupied cell
Adjacent(c, pos) == \E i \in 0..3 : At(connecting(pos), i) \in Keys(c)

\* C16: with damage = 0 the Place actions of possible_actions(shop) are
\* exactly the Place(t, pos, 0), t in shop, that apply accepts, that is one
\* for every empty position next to an occupied cell where can_place_room
\* holds; for the single all-Wild throne and the shop of four single-connector
\* rooms possible_actions returns exactly 4 actions, all Place.
C16_PlaceEnumeration ==
  /\ (~panicked /\ castle.damage = 0) =>
       \A acts \in {possible_actions(castle, Shop)} :
         /\ ~acts.panic
         /\ {a \in acts.value : a.kind = "Place"}
              = {a \in {Place(Shop[i], pos, 0) : i \in 1..Len(Shop), pos \in WideGrid} :
                   apply(castle, a).err = "Ok"}
         /\ {a \in acts.value : a.kind = "Place"}
              = {Place(Shop[e[1]], e[2], 0) : e \in
                   {x \in (1..Len(Shop)) \X WideGrid :
                      /\ x[2] \notin Keys(castle)
                      /\ Adjacent(castle, x[2])
                      /\ can_place_room(castle, [info |-> Shop[x[1]], rotation |-> 0], x[2])}}
  /\ castle = Castle_new(Throne) =>
       \A acts \in {possible_actions(castle, TestShop)} :
         /\ ~acts.panic
         /\ Cardinality(acts.value) = 4
         /\ \A a \in acts.value : a.kind = "Place"

\* an undamaged castle of several rooms for which Place actions are
\* enumerated, one of them outside the grid, and some shop room is refused
\* at an empty position next to the castle
C16_Witness ==
  /\ ~panicked
  /\ castle.damage = 0
  /\ Len_rooms(castle) >= 2
  /\ \E a \in possible_actions(castle, Shop).value : a.kind = "Place" /\ a.pos \notin Grid
  /\ \E i \in 1..Len(Shop), pos \in WideGrid :
       /\ pos \notin Keys(castle)
       /\ Adjacent(castle, pos)
       /\ apply(castle, Place(Shop[i], pos, 0)).err = "InvalidConnection"

\* the castle values is_lost is asked about: the current rooms or the rooms
\* without one position, with any small damage
LostInputs ==
  {[rooms |-> rs, damage |-> d] :
     rs \in {castle.rooms} \cup {Remove(castle.rooms, p) : p \in Keys(castle)},
     d \in 0..(MaxRooms + 1)}

DamageInputs == {Damage(diamond, cross, moon) : diamond \in Amounts, cross \in Amounts, moon \in Amounts}

\* C17: is_lost is true iff damage >= room count or no occupied room is a
\* throne; a lost castle stays lost under every further successful apply, and
\* no Place, Move, Swap or Discard succeeds on it.
C17_LostTerminal ==
  /\ \A c \in LostInputs :
       is_lost(c) <=> (c.damage >= Cardinality(DOMAIN c.rooms)
                       \/ ~\E p \in DOMAIN c.rooms : c.rooms[p].info.throne)
  /\ (~panicked /\ is_lost(castle)) =>
       /\ \A a \in PlaceInputs \cup MoveInputs \cup SwapInputs \cup DiscardInputs(castle) :
            apply(castle, a).err # "Ok"
       /\ \A a \in DamageInputs :
            \A r \in {apply(castle, a)} : r.err = "Ok" => is_lost(r.castle)

\* a castle wiped by a Damage that left no damage over, so that Place is not
\* merely refused for pending damage, and on which a further Damage succeeds
C17_Witness ==
  /\ ~panicked
  /\ is_lost(castle)
  /\ castle.damage = 0
  /\ \E a \in DamageInputs : \E r \in {apply(castle, a)} : r.err = "Ok" /\ r.castle.damage > 0

\* the rotated connectors of the rooms of a castle
ConnectorsOf(c) == {At(get_connections(c.rooms[p]), i) : p \in Keys(c), i \in 0..3}

\* the table of connect for one pair of connectors
ConnectRow(a, b) ==
  /\ connect(a, b) \in {"None", "SomeTrue", "SomeFalse"}
  /\ connect(a, b) = "None" <=> (a = CNone /\ b = CNone)
  /\ connect(a, b) = "SomeFalse" <=> ((a = CNone) # (b = CNone))
  /\ connect(a, b) = "SomeTrue" <=> (a # CNone /\ b # CNone)

ConnectAllPairs == \A a \in Connection, b \in Connection : ConnectRow(a, b)

\* C18: for all connectors a, b: connect(a, b) is None iff both are
\* Connection::None, Some(false) iff exactly one is, and Some(true) iff
\* neither is, whatever the connector types and power flags; so it is for
\* every pair of connectors of the castle.
C18_ConnectTable ==
  /\ ConnectAllPairs
  /\ \A a \in ConnectorsOf(castle), b \in ConnectorsOf(castle) : ConnectRow(a, b)

\* a castle where can_place_room meets all three outcomes of connect, the
\* Some(true) also between two typed connectors of different types
C18_Witness ==
  /\ \E pos \in Grid, room \in PlacedInputs :
       /\ \E i \in OccupiedDirs(castle, pos) :
            \E f \in {Facing(castle, room, pos, i)} : connect(f[1], f[2]) = "None"
       /\ \E i \in OccupiedDirs(castle, pos) :
            \E f \in {Facing(castle, room, pos, i)} : connect(f[1], f[2]) = "SomeFalse"
  /\ \E v \in Visits(castle) :
       \E f \in {Facing(castle, castle.rooms[v[1]], v[1], v[2])} :
         /\ connect(f[1], f[2]) = "SomeTrue"
         /\ f[1].kind \notin {"Wild", f[2].kind}
         /\ f[2].kind # "Wild"

Typed == {"Diamond", "Cross", "Moon"}

\* the rows of the link table that give a link value
LinkRows(a, b) ==
  /\ (a = Wild /\ b = Wild) => link(a, b) = [ok |-> TRUE, val |-> Wild]
  /\ (a = Wild /\ b.kind \in Typed) => link(a, b) = [ok |-> TRUE, val |-> [kind |-> b.kind, power |-> TRUE]]
  /\ (a.kind \in Typed /\ (b = Wild \/ b.kind = a.kind)) =>
       link(a, b) = [ok |-> TRUE, val |-> [kind |-> a.kind, power |-> a.power]]
  /\ (a = CNone /\ b = CNone) => link(a, b) = [ok |-> TRUE, val |-> CNone]

\* None paired with non-None is a failure
LinkNoneFails(a, b) == ((a = CNone) # (b = CNone)) => ~link(a, b).ok

\* two typed connectors of different types
Mismatched(a, b) == a.kind \in Typed /\ b.kind \in Typed /\ a.kind # b.kind

LinkAllFail ==
  \A a \in Connection, b \in Connection :
    LinkRows(a, b) /\ LinkNoneFails(a, b) /\ (Mismatched(a, b) => ~link(a, b).ok)

LinkAllPairs ==
  \A a \in Connection, b \in Connection :
    LinkRows(a, b) /\ LinkNoneFails(a, b) /\ (Mismatched(a, b) => link(a, b) = [ok |-> TRUE, val |-> CNone])

\* C19 as stated: link follows the table, and every other combination (two
\* different typed connectors, or None paired with non-None) is reported as
\* a failure, never as a successful link value; so it is for the facing
\* pairs of the castle.
C19_LinkOthersFail ==
  /\ LinkAllFail
  /\ \A v \in Visits(castle) :
       \A f \in {Facing(castle, castle.rooms[v[1]], v[1], v[2])} :
         LinkRows(f[1], f[2]) /\ LinkNoneFails(f[1], f[2]) /\ (Mismatched(f[1], f[2]) => ~link(f[1], f[2]).ok)

\* C19 amended: link follows the table; None paired with non-None is
\* reported as a failure; two typed connectors of different types give the
\* successful value Connection::None, which counts as no link; so it is for
\* the facing pairs of the castle.
C19_LinkTable ==
  /\ LinkAllPairs
  /\ \A v \in Visits(castle) :
       \A f \in {Facing(castle, castle.rooms[v[1]], v[1], v[2])} :
         /\ LinkRows(f[1], f[2]) /\ LinkNoneFails(f[1], f[2])
         /\ Mismatched(f[1], f[2]) => link(f[1], f[2]) = [ok |-> TRUE, val |-> CNone]

\* a castle in which get_links links two typed connectors of different types
\* and returns its tallies without a panic
C19_Witness ==
  /\ ~get_links(castle).panic
  /\ \E v \in Visits(castle) :
       \E f \in {Facing(castle, castle.rooms[v[1]], v[1], v[2])} :
         /\ f[1].kind \in Typed /\ f[2].kind \in Typed /\ f[1].kind # f[2].kind
         /\ LinkAt(castle, v[1], v[2]) = [ok |-> TRUE, val |-> CNone]

\* rotation values tried: the multiples of 45 up to 720, values next to a
\* multiple of 90, and the largest u16 to which 360 can still be added
RotInputs == {45 * n : n \in 0..16} \cup {89, 91, 269, 359, 361, 65175}

\* the room templates of the tests and of the driver
Templates == {Throne, Corner} \cup {TestShop[i] : i \in 1..Len(TestShop)}

\* the connector at canonical index k of template t is at index (k + s) mod 4
\* of its tuple rotated by r, s the number of quarter turns in r
Shifted(t, r) ==
  /\ (r % 360) \div 90 = (r \div 90) % 4
  /\ Len(get_rotated_connections(t, r)) = 4
  /\ \A k \in 0..3 :
       At(get_rotated_connections(t, r), (k + ((r % 360) \div 90)) % 4) = At(t.connections, k)

RotationAllInputs ==
  \A t \in Templates :
    /\ get_rotated_connections(t, 0) = t.connections
    /\ \A r \in RotInputs :
         Shifted(t, r) /\ get_rotated_connections(t, r + 360) = get_rotated_connections(t, r)

\* C20: for every rotation r the connector at canonical index k appears at
\* index (k + s) mod 4, s = (r mod 360) div 90 = (r div 90) mod 4; rotation 0
\* is the identity; r and r + 360 give the same tuple; so it is for the
\* rooms of the castle at their rotations.
C20_RotatedConnectors ==
  /\ RotationAllInputs
  /\ \A p \in Keys(castle) :
       /\ Shifted(castle.rooms[p].info, castle.rooms[p].rotation)
       /\ get_connections(castle.rooms[p]) = get_rotated_connections(castle.rooms[p].info, castle.rooms[p].rotation + 360)
       /\ castle.rooms[p].rotation = 0 => get_connections(castle.rooms[p]) = castle.rooms[p].info.connections

\* a room placed with rotation 90 whose connector, west in the template,
\* now joins it to the neighbour to its north
C20_Witness ==
  \E p \in Keys(castle) :
    /\ castle.rooms[p].rotation = 90
    /\ castle.rooms[p].info = WestCross
    /\ At(connecting(p), 0) \in Keys(castle)
    /\ connect(Facing(castle, castle.rooms[p], p, 0)[1], Facing(castle, castle.rooms[p], p, 0)[2]) = "SomeTrue"
    /\ At(get_connections(castle.rooms[p]), 0) = Cross(FALSE)

(* ================== claims about discards and scoring ================= *)
\* the two-tier rule: the non-throne rooms with exactly one active
\* connection if there are any, otherwise the non-throne rooms with at most
\* two
DiscardRule(c) ==
  LET others == {p \in Keys(c) : ~c.rooms[p].info.throne}
      outer == {p \in others : room_num_connected(c, p) = 1}
  IN IF outer # {} THEN outer ELSE {p \in others : room_num_connected(c, p) <= 2}

\* C21: on a reachable castle with damage > 0, a single discard of pos is
\* accepted exactly when pos is in possible_discard, which is the two-tier
\* set (outer non-throne rooms first, otherwise non-throne rooms with at most
\* two active connections, never the throne next to another room); an accepted
\* discard removes that room alone and lowers damage by 1.
C21_SingleDiscard ==
  castle.damage > 0 =>
    \A ps \in {possible_discard(castle)} :
      \A eligible \in {{ps[k] : k \in 1..Len(ps)}} :
        /\ eligible = DiscardRule(castle)
        /\ \A pos \in Grid :
             \A r \in {action_discard_one(castle, pos)} :
               /\ (r.err = "Ok") <=> (pos \in eligible)
               /\ r.err = "Ok" =>
                    r.castle = [rooms |-> Remove(castle.rooms, pos), damage |-> castle.damage - 1]

\* a damaged castle where an outer room is accepted and a non-throne room
\* with two active connections is refused
C21_Witness ==
  /\ castle.damage > 0
  /\ \E pos \in Keys(castle) : action_discard_one(castle, pos).err = "Ok"
  /\ \E pos \in Keys(castle) :
       /\ ~castle.rooms[pos].info.throne
       /\ room_num_connected(castle, pos) = 2
       /\ action_discard_one(castle, pos).err = "NotOuterRoom"

\* the physical edges: each pair of adjacent rooms once, seen from its west
\* or north end
Edges(c) == {v \in Visits(c) : v[2] \in {1, 2}}

EdgesOf(c, k) == Cardinality({e \in Edges(c) : LinkAt(c, e[1], e[2]).val.kind = k})

PoweredRule(c, pos) ==
  \A i \in {j \in 0..3 : power(At(get_connections(c.rooms[pos]), j))} :
    /\ At(connecting(pos), i) \in Keys(c)
    /\ LinkAt(c, pos, i).ok
    /\ power(LinkAt(c, pos, i).val)

RECURSIVE SumTreasure(_, _)
SumTreasure(c, S) ==
  IF S = {} THEN 0
  ELSE LET p == CHOOSE q \in S : TRUE
       IN c.rooms[p].info.treasure + SumTreasure(c, S \ {p})

\* C23: get_treasure is the sum of the treasure of exactly the powered
\* rooms, a room being powered when each of its powered connectors faces an
\* occupied neighbour and links with it to a powered result; a room without
\* powered connectors always counts.
C23_Treasure ==
  \A t \in {get_treasure(castle)} :
    /\ ~t.panic
    /\ t.val = SumTreasure(castle, {p \in Keys(castle) : PoweredRule(castle, p)})
    /\ \A p \in Keys(castle) :
         (\A i \in 0..3 : ~power(At(get_connections(castle.rooms[p]), i))) =>
           room_is_powered(castle, p)

\* a castle with two vaults, one powered through its link with the other and
\* counted, the other with its powered connector facing an empty cell and
\* left out
C23_Witness ==
  /\ get_treasure(castle) = [panic |-> FALSE, val |-> Vault.treasure]
  /\ \E p \in Keys(castle), q \in Keys(castle) :
       /\ castle.rooms[p].info = Vault /\ room_is_powered(castle, p)
       /\ castle.rooms[q].info = Vault /\ ~room_is_powered(castle, q)

\* the rooms at p and q validate at each other's position
Validates(c, p, q) ==
  can_place_room(c, c.rooms[p], q) /\ can_place_room(c, c.rooms[q], p)

\* C24 as stated: with damage 0, possible_actions holds one Swap per
\* unordered pair of distinct occupied positions whose rooms validate at each
\* other's position, and never both Swap(p, q) and Swap(q, p).
C24_SwapPerPair ==
  castle.damage = 0 =>
    \A acts \in {possible_actions(castle, Shop)} :
      \A swaps \in {{a \in acts.value : a.kind = "Swap"}} :
        /\ ~acts.panic
        /\ \A a \in swaps :
             /\ a.pos_1 # a.pos_2
             /\ {a.pos_1, a.pos_2} \subseteq Keys(castle)
             /\ Validates(castle, a.pos_1, a.pos_2)
             /\ Swap(a.pos_2, a.pos_1) \notin swaps
        /\ \A p \in Keys(castle), q \in Keys(castle) :
             (p # q /\ Validates(castle, p, q)) =>
               (Swap(p, q) \in swaps \/ Swap(q, p) \in swaps)

\* C24, amended: with damage 0, possible_actions holds one Swap per ordered
\* pair (p, q) of distinct occupied positions whose rooms validate at each
\* other's position: Swap(q, p) is there whenever Swap(p, q) is, and the
\* list all_possible_swaps builds holds no pair twice.
C24_SwapPerOrderedPair ==
  castle.damage = 0 =>
    \A acts \in {possible_actions(castle, Shop)} :
      \A swaps \in {{a \in acts.value : a.kind = "Swap"}} :
        /\ ~acts.panic
        /\ swaps = {Swap(p, q) : <<p, q>> \in
                      {e \in Keys(castle) \X Keys(castle) : e[1] # e[2] /\ Validates(castle, e[1], e[2])}}
        /\ \A a \in swaps : Swap(a.pos_2, a.pos_1) \in swaps
        /\ \A vec \in {all_possible_swaps_vec(castle)} :
             /\ {vec[n] : n \in 1..Len(vec)} = all_possible_swaps(castle)
             /\ \A m \in 1..Len(vec), n \in 1..Len(vec) : m # n => vec[m] # vec[n]

\* an undamaged castle whose possible_actions holds a Swap and its reverse
C24_Witness ==
  /\ castle.damage = 0
  /\ \E p \in Keys(castle), q \in Keys(castle) :
       /\ p # q
       /\ Swap(p, q) \in possible_actions(castle, Shop).value
       /\ Swap(q, p) \in possible_actions(castle, Shop).value
       /\ apply(castle, Swap(p, q)).err = "Ok"

\* some sequence of accepted single discards brings the damage to 0
RECURSIVE Resolvable(_)
Resolvable(c) ==
  \/ c.damage = 0
  \/ \E pos \in Keys(c) :
       \E r \in {action_discard_one(c, pos)} : r.err = "Ok" /\ Resolvable(r.castle)

\* C25: in every castle reachable by applied actions the damage can be
\* resolved by discard: the room mapping is empty, or damage is strictly less
\* than the room count, the castle is not lost and single discards can bring
\* the damage to 0.
C25_DamageResolvable ==
  \/ Keys(castle) = {}
  \/ /\ castle.damage < Len_rooms(castle)
     /\ ~is_lost(castle)
     /\ Resolvable(castle)

\* a castle left with rooms and damage by a Damage that stayed below the
\* room count
C25_Witness ==
  /\ castle.damage > 0
  /\ castle.damage = Len_rooms(castle) - 1
  /\ Len_rooms(castle) > 2

====
